---- MODULE Spec2Model ----
(***************************************************************************)
(* Session / transaction state machine of PTPDevice (src/ptp.py) and the   *)
(* FujiX100 vendor extension (src/ptpy/extensions/fujix100.py): Spec.      *)
(* The codec functions of src/ptp.py (endianness selector, code tables,    *)
(* frames, DeviceInfo): SpecCodec.  The __transaction getter run by two    *)
(* threads, statement by statement: SpecThreads.                           *)
(*                                                                         *)
(* TransactionIDs range up to 0xFFFFFFFE, which does not fit the model     *)
(* checker's integers, so a TransactionID is kept as two 16-bit halves     *)
(* <<high, low>>.  All other numbers (the session counter, parameters)     *)
(* stay small and are plain integers.                                      *)
(***************************************************************************)
EXTENDS Integers, Sequences, FiniteSets, TLC

VARIABLES
    session,         \* PTPDevice.__session
    transaction_id,  \* PTPDevice.__transaction_id, as <<high, low>>
    wire,            \* every Container handed to the transport, oldest first
    returned,        \* values the __transaction getter returned since the last reset
    from_reset,      \* TRUE when `returned` starts right at a reset / construction
    ctx,             \* session() generators suspended at their yield, innermost last
    last,            \* the most recent call and how it ended
    ncalls,          \* number of calls made so far
    restarts,        \* how often the ids handed out started over (reset or wrap)
    stamps,          \* stamps[i]: the value of `restarts` when wire[i] was handed over
    threads,         \* callers that share the device from several threads
    endian           \* the flags given to _set_endian and the host's byte order

vars == <<session, transaction_id, wire, returned, from_reset, ctx, last, ncalls,
          restarts, stamps, threads, endian>>

\* ------------------------------------------------------------------ bounds
MaxCalls == 3
PreWrap == 1
MaxNesting == 2

\* ------------------------------------------------- 32-bit counter arithmetic
Limb == 2^16

Zero == <<0, 0>>
One == <<0, 1>>

\* 0xFFFFFFFE
MaxTransactionID == <<Limb - 1, Limb - 2>>

\* v + 1
Inc(v) == IF v[2] + 1 < Limb THEN <<v[1], v[2] + 1>> ELSE <<v[1] + 1, 0>>

\* v - 1, for v > 0
Dec(v) == IF v[2] > 0 THEN <<v[1], v[2] - 1>> ELSE <<v[1] - 1, Limb - 1>>

\* a > b
Gt(a, b) == a[1] > b[1] \/ (a[1] = b[1] /\ a[2] > b[2])

RECURSIVE Back(_, _)
\* v - n, for v >= n
Back(v, n) == IF n = 0 THEN v ELSE Back(Dec(v), n - 1)

\* --------------------------------------------------- __transaction property
\* Mutant: the wrap goes back to 0 instead of 1.
transaction_getter_wraps_to_zero(id) ==
    [current_id |-> id,
     transaction_id |-> IF Gt(Inc(id), MaxTransactionID) THEN Zero ELSE Inc(id)]

\* The getter: returns the current id and leaves the counter incremented,
\* wrapped to 1 when it would exceed 0xFFFFFFFE.
transaction_getter(id) ==
    [current_id |-> id,
     transaction_id |-> IF Gt(Inc(id), MaxTransactionID) THEN One ELSE Inc(id)]

\* Mutant: the setter stores whatever it is given.
transaction_setter_stores(value, id) ==
    [raised |-> FALSE, transaction_id |-> value]

\* The setter: a nonzero value raises PTPError, zero resets the counter.
transaction_setter(value, id) ==
    IF value # Zero
    THEN [raised |-> TRUE, transaction_id |-> id]
    ELSE [raised |-> FALSE, transaction_id |-> Zero]

\* -------------------------------------------------------------- the device
\* The device object's fields together with what the transport has seen.
Dev ==
    [session |-> session, transaction_id |-> transaction_id, wire |-> wire,
     returned |-> returned, from_reset |-> from_reset,
     restarts |-> restarts, stamps |-> stamps]

Install(d) ==
    /\ session' = d.session
    /\ transaction_id' = d.transaction_id
    /\ wire' = d.wire
    /\ returned' = d.returned
    /\ from_reset' = d.from_reset
    /\ restarts' = d.restarts
    /\ stamps' = d.stamps
    /\ UNCHANGED <<threads, endian>>

\* A read of self.__transaction on device d.
Produce(d) ==
    LET g == transaction_getter(d.transaction_id)
    IN  [value |-> g.current_id,
         dev |-> [d EXCEPT !.transaction_id = g.transaction_id,
                           !.returned = Append(@, g.current_id),
                           !.restarts =
                               IF /\ d.returned # <<>>
                                  /\ ~Gt(g.current_id, d.returned[Len(d.returned)])
                               THEN @ + 1 ELSE @]]

\* An assignment self.__transaction = value on device d.
Assign(d, value) ==
    LET s == transaction_setter(value, d.transaction_id)
    IN  [raised |-> s.raised,
         dev |-> IF s.raised THEN d
                 ELSE [d EXCEPT !.transaction_id = s.transaction_id,
                                !.returned = <<>>,
                                !.from_reset = TRUE,
                                !.restarts = @ + 1]]

Container(code, sid, tid, params) ==
    [OperationCode |-> code, SessionID |-> sid, TransactionID |-> tid,
     Parameter |-> params]

\* One wire entry stands for the frames code/sid/params with TransactionIDs
\* tid .. upto; a frame handed over by a call is an entry with upto = tid.
Handed(via, ptp) ==
    [via |-> via, OperationCode |-> ptp.OperationCode,
     SessionID |-> ptp.SessionID, TransactionID |-> ptp.TransactionID,
     Parameter |-> ptp.Parameter, upto |-> ptp.TransactionID]

\* self.mesg(ptp): the no-dataphase primitive of the transport
mesg(d, ptp) ==
    [d EXCEPT !.wire = Append(@, Handed("mesg", ptp)),
              !.stamps = Append(@, d.restarts)]

\* self.recv(ptp): the responder-to-initiator dataphase primitive
recv(d, ptp) ==
    [d EXCEPT !.wire = Append(@, Handed("recv", ptp)),
              !.stamps = Append(@, d.restarts)]

\* What a transport call can do: return a Response (with any code) or raise.
Responses == {"OK", "GeneralError"}
Outcomes == Responses \cup {"raise"}

\* Mutant: the OpenSession frame carries the session counter as SessionID.
open_session_with_sid(d) ==
    LET d1 == [d EXCEPT !.session = @ + 1]
        d2 == Assign(d1, Zero).dev
        p == Produce(d2)
    IN  mesg(p.dev, Container("OpenSession", d1.session, p.value,
                              <<d1.session, 0, 0, 0, 0>>))

\* Mutant: the session counter is not incremented.
open_session_no_increment(d) ==
    LET d2 == Assign(d, Zero).dev
        p == Produce(d2)
    IN  mesg(p.dev, Container("OpenSession", 0, p.value,
                              <<d.session, 0, 0, 0, 0>>))

open_session(d) ==
    LET d1 == [d EXCEPT !.session = @ + 1]
        d2 == Assign(d1, Zero).dev
        p == Produce(d2)
    IN  mesg(p.dev, Container("OpenSession", 0, p.value,
                              <<d1.session, 0, 0, 0, 0>>))

\* Mutant: the frame takes the raw counter field, so the id is not consumed.
close_session_stale_id(d) ==
    mesg(d, Container("CloseSession", d.session, d.transaction_id,
                      <<0, 0, 0, 0, 0>>))

\* Mutant: the CloseSession frame is sent with SessionID 0.
close_session_sid_zero(d) ==
    LET p == Produce(d)
    IN  mesg(p.dev, Container("CloseSession", 0, p.value,
                              <<0, 0, 0, 0, 0>>))

close_session(d) ==
    LET p == Produce(d)
    IN  mesg(p.dev, Container("CloseSession", d.session, p.value,
                              <<0, 0, 0, 0, 0>>))

\* ------------------------------------------------------ FujiX100 extension
\* self._session as the extension reads it: the base device's session counter.
_session(d) == d.session

\* self._transaction as the extension reads it: the base device's
\* __transaction getter.
_transaction(d) == Produce(d)

\* Mutant: the vendor frame is built with SessionID 0.
get_config_info_no_session(d) ==
    LET p == _transaction(d)
    IN  recv(p.dev, Container("GetObjectInfo", 0, p.value, <<0>>))

get_config_info(d) ==
    LET p == _transaction(d)
    IN  recv(p.dev, Container("GetObjectInfo", _session(d), p.value, <<0>>))

get_config_backup(d) ==
    LET p == _transaction(d)
    IN  recv(p.dev, Container("GetObject", _session(d), p.value, <<0>>))

\* ------------------------------------------------------------ session_id
\* Mutant: the setter stores the value.
session_id_setter_stores(d, value) == [d EXCEPT !.session = value]

\* The session_id setter ignores the assignment.
session_id_setter(d, value) == d

\* --------------------------------------------------------------- session()
\* Mutant: no try/finally, so a pending exception skips the close.
session_finally_skipped_on_error(d, pending) ==
    IF pending THEN d ELSE close_session(d)

\* Mutant: the cleanup runs a second time when an exception is pending.
session_finally_closes_twice(d, pending) ==
    IF pending THEN close_session(close_session(d)) ELSE close_session(d)

\* The finally clause of session(): close_session() runs whether or not an
\* exception is pending.
session_finally(d, pending) == close_session(d)

\* Mutant: a failure of the cleanup is swallowed.
session_raises_swallowing(pending, closing) == pending

\* What leaves session() once the finally clause has run: the exception
\* close_session() raised, else the one that was pending, else nothing.
session_raises(pending, closing) ==
    IF closing = "raise" THEN "close_session" ELSE pending

\* The ways the body of a `with ....session():` statement can end.
BodyExits == {"normal", "return", "raise"}

\* The classes whose session() a caller can enter; FujiX100.session wraps
\* the base one and yields inside it.
SessionClasses == {"PTPDevice", "FujiX100"}

\* ------------------------------------------------------------------- state
Call(op, arg, how, transport, result) ==
    [op |-> op, arg |-> arg, how |-> how, transport |-> transport,
     result |-> result]

\* No caller is inside the getter: the device is used from one thread.
NoThreads == [serialized |-> TRUE, holder |-> 0, th |-> <<>>]

\* _set_endian() with its defaults, on a little-endian host.
DefaultEndian == [little |-> FALSE, big |-> FALSE, native |-> "little"]

\* A device right after construction.
InitFresh ==
    /\ session = 0
    /\ transaction_id = Zero
    /\ wire = <<>>
    /\ returned = <<>>
    /\ from_reset = TRUE
    /\ restarts = 0
    /\ stamps = <<>>

\* A device whose first session has been open for a long time: after
\* open_session() it served get_config_backup() until the counter stands d
\* short of 0xFFFFFFFE.
InitLongRun(d) ==
    /\ session = 1
    /\ transaction_id = Back(MaxTransactionID, d)
    /\ wire = << Handed("mesg", Container("OpenSession", 0, Zero, <<1, 0, 0, 0, 0>>)),
                 [Handed("recv", Container("GetObject", 1, One, <<0>>))
                    EXCEPT !.upto = Back(MaxTransactionID, d + 1)] >>
    /\ returned = <<>>
    /\ from_reset = FALSE
    /\ restarts = 1
    /\ stamps = <<1, 1>>

Init ==
    /\ InitFresh \/ \E d \in 0..PreWrap : InitLongRun(d)
    /\ ctx = <<>>
    /\ last = Call("init", Zero, "", "", "")
    /\ ncalls = 0
    /\ threads = NoThreads
    /\ endian = DefaultEndian

\* Values a caller may try to assign to the counter or to session_id.
AssignedTransactions == {Zero, One, MaxTransactionID}
AssignedSessions == {0, 7}

\* ----------------------------------------------------------------- actions
OpenSession(o) ==
    /\ ncalls < MaxCalls
    /\ Install(open_session(Dev))
    /\ last' = Call("open_session", Zero, "", o, o)
    /\ ncalls' = ncalls + 1
    /\ UNCHANGED ctx

CloseSession(o) ==
    /\ ncalls < MaxCalls
    /\ Install(close_session(Dev))
    /\ last' = Call("close_session", Zero, "", o, o)
    /\ ncalls' = ncalls + 1
    /\ UNCHANGED ctx

GetConfigInfo(o) ==
    /\ ncalls < MaxCalls
    /\ Install(get_config_info(Dev))
    /\ last' = Call("get_config_info", Zero, "", o, o)
    /\ ncalls' = ncalls + 1
    /\ UNCHANGED ctx

GetConfigBackup(o) ==
    /\ ncalls < MaxCalls
    /\ Install(get_config_backup(Dev))
    /\ last' = Call("get_config_backup", Zero, "", o, o)
    /\ ncalls' = ncalls + 1
    /\ UNCHANGED ctx

\* A bare read of the __transaction property.
ReadTransaction ==
    /\ ncalls < MaxCalls
    /\ Install(Produce(Dev).dev)
    /\ last' = Call("transaction", transaction_id, "", "", "value")
    /\ ncalls' = ncalls + 1
    /\ UNCHANGED ctx

\* self.__transaction = value
SetTransaction(value) ==
    /\ ncalls < MaxCalls
    /\ LET a == Assign(Dev, value)
       IN  /\ Install(a.dev)
           /\ last' = Call("transaction=", value, "", "",
                           IF a.raised THEN "PTPError" ELSE "None")
    /\ ncalls' = ncalls + 1
    /\ UNCHANGED ctx

\* device.session_id = value
SetSessionId(value) ==
    /\ ncalls < MaxCalls
    /\ Install(session_id_setter(Dev, value))
    /\ last' = Call("session_id=", <<0, value>>, "", "", "None")
    /\ ncalls' = ncalls + 1
    /\ UNCHANGED ctx

\* `with device.session():` up to the yield.  open_session() raising makes
\* the finally clause run at once and the body never starts.
SessionEnter(cls, o, oc) ==
    /\ ncalls < MaxCalls
    /\ Len(ctx) < MaxNesting
    /\ IF o = "raise"
       THEN /\ Install(session_finally(open_session(Dev), TRUE))
            /\ ctx' = ctx
            /\ last' = Call("session.enter", Zero, cls, oc,
                            session_raises("open_session", oc))
       ELSE /\ oc = "OK"
            /\ Install(open_session(Dev))
            /\ ctx' = Append(ctx, [cls |-> cls])
            /\ last' = Call("session.enter", Zero, cls, o, "yield")
    /\ ncalls' = ncalls + 1

\* The body of the innermost `with` ends the way `how` and the generator
\* resumes: the finally clause runs.
SessionExit(how, oc) ==
    /\ ncalls < MaxCalls
    /\ ctx # <<>>
    /\ LET pending == IF how = "raise" THEN "body" ELSE "None"
       IN  /\ Install(session_finally(Dev, pending # "None"))
           /\ last' = Call("session.exit", Zero, how, oc,
                           session_raises(pending, oc))
    /\ ctx' = SubSeq(ctx, 1, Len(ctx) - 1)
    /\ ncalls' = ncalls + 1

Next ==
    \/ \E o \in Outcomes : OpenSession(o)
    \/ \E o \in Outcomes : CloseSession(o)
    \/ \E o \in Outcomes : GetConfigInfo(o)
    \/ \E o \in Outcomes : GetConfigBackup(o)
    \/ ReadTransaction
    \/ \E v \in AssignedTransactions : SetTransaction(v)
    \/ \E v \in AssignedSessions : SetSessionId(v)
    \/ \E c \in SessionClasses, o \in Outcomes, oc \in Outcomes : SessionEnter(c, o, oc)
    \/ \E h \in BodyExits, oc \in Outcomes : SessionExit(h, oc)

Spec == Init /\ [][Next]_vars

\* ------------------------------------------------------------ switch_endian
\* Mutant: the little and big variants are exchanged.
switch_endian_swapped(le, be, l, b, n) ==
    IF be # le THEN (IF le THEN b ELSE l)
    ELSE IF le THEN "PTPError"
    ELSE n

\* switch_endian(le, be, l, b, n): the variant the two flags select; both
\* flags set raises PTPError.
switch_endian(le, be, l, b, n) ==
    IF be # le THEN (IF le THEN l ELSE b)
    ELSE IF le THEN "PTPError"
    ELSE n

\* The byte order a constructor called with _le_, _be_ picks among the
\* UL.., UB.. and UN.. integers.
Order(le, be) == switch_endian(le, be, "little", "big", "native")

\* -------------------------------------------------------------- code tables
\* The keyword arguments of each Enum(...) call, as (name, value) pairs.
OperationCode ==
    { <<"Undefined", 4096>>, <<"GetDeviceInfo", 4097>>,
      <<"OpenSession", 4098>>, <<"CloseSession", 4099>>,
      <<"GetStorageIDs", 4100>>, <<"GetStorageInfo", 4101>>,
      <<"GetNumObjects", 4102>>, <<"GetObjectHandles", 4103>>,
      <<"GetObjectInfo", 4104>>, <<"GetObject", 4105>>, <<"GetThumb", 4106>>,
      <<"DeleteObject", 4107>>, <<"SendObjectInfo", 4108>>,
      <<"SendObject", 4109>>, <<"InitiateCapture", 4110>>,
      <<"FormatStore", 4111>>, <<"ResetDevice", 4112>>, <<"SelfTest", 4113>>,
      <<"SetObjectProtection", 4114>>, <<"PowerDown", 4115>>,
      <<"GetDevicePropDesc", 4116>>, <<"GetDevicePropValue", 4117>>,
      <<"SetDevicePropValue", 4118>>, <<"ResetDevicePropValue", 4119>>,
      <<"TerminateOpenCapture", 4120>>, <<"MoveObject", 4121>>,
      <<"CopyObject", 4122>>, <<"GetPartialObject", 4123>>,
      <<"InitiateOpenCapture", 4124>>, <<"StartEnumHandles", 4125>>,
      <<"EnumHandles", 4126>>, <<"StopEnumHandles", 4127>>,
      <<"GetVendorExtensionMapss", 4128>>, <<"GetVendorDeviceInfo", 4129>>,
      <<"GetResizedImageObject", 4130>>, <<"GetFilesystemManifest", 4131>>,
      <<"GetStreamInfo", 4132>>, <<"GetStream", 4133>> }

ResponseCode ==
    { <<"Undefined", 8192>>, <<"OK", 8193>>, <<"GeneralError", 8194>>,
      <<"SessionNotOpen", 8195>>, <<"InvalidTransactionID", 8196>>,
      <<"OperationNotSupported", 8197>>, <<"ParameterNotSupported", 8198>>,
      <<"IncompleteTransfer", 8199>>, <<"InvalidStorageId", 8200>>,
      <<"InvalidObjectHandle", 8201>>, <<"DevicePropNotSupported", 8202>>,
      <<"InvalidObjectFormatCode", 8203>>, <<"StoreFull", 8204>>,
      <<"ObjectWriteProtected", 8205>>, <<"StoreReadOnly", 8206>>,
      <<"AccessDenied", 8207>>, <<"NoThumbnailPresent", 8208>>,
      <<"SelfTestFailed", 8209>>, <<"PartialDeletion", 8210>>,
      <<"StoreNotAvailable", 8211>>,
      <<"SpecificationByFormatUnsupported", 8212>>,
      <<"NoValidObjectInfo", 8213>>, <<"InvalidCodeFormat", 8214>>,
      <<"UnknownVendorCode", 8215>>, <<"CaptureAlreadyTerminated", 8216>>,
      <<"DeviceBusy", 8217>>, <<"InvalidParentObject", 8218>>,
      <<"InvalidDevicePropFormat", 8219>>, <<"InvalidDevicePropValue", 8220>>,
      <<"InvalidParameter", 8221>>, <<"SessionAlreadyOpened", 8222>>,
      <<"TransactionCanceled", 8223>>,
      <<"SpecificationOfDestinationUnsupported", 8224>>,
      <<"InvalidEnumHandle", 8225>>, <<"NoStreamEnabled", 8226>>,
      <<"InvalidDataset", 8227>> }

EventCode ==
    { <<"Undefined", 16384>>, <<"CancelTransaction", 16385>>,
      <<"ObjectAdded", 16386>>, <<"ObjectRemoved", 16387>>,
      <<"StoreAdded", 16388>>, <<"StoreRemoved", 16389>>,
      <<"DevicePropChanged", 16390>>, <<"ObjectInfoChanged", 16391>>,
      <<"DeviceInfoChanged", 16392>>, <<"RequestObjectTransfer", 16393>>,
      <<"StoreFull", 16394>>, <<"DeviceReset", 16395>>,
      <<"StorageInfoChanged", 16396>>, <<"CaptureComplete", 16397>>,
      <<"UnreportedStatus", 16398>> }

PropertyCode ==
    { <<"Undefined", 20480>>, <<"BatteryLevel", 20481>>,
      <<"FunctionalMode", 20482>>, <<"ImageSize", 20483>>,
      <<"CompressionSetting", 20484>>, <<"WhiteBalance", 20485>>,
      <<"RGBGain", 20486>>, <<"FNumber", 20487>>, <<"FocalLength", 20488>>,
      <<"FocusDistance", 20489>>, <<"FocusMode", 20490>>,
      <<"ExposureMeteringMode", 20491>>, <<"FlashMode", 20492>>,
      <<"ExposureTime", 20493>>, <<"ExposureProgramMode", 20494>>,
      <<"ExposureIndex", 20495>>, <<"ExposureBiasCompensation", 20496>>,
      <<"DateTime", 20497>>, <<"CaptureDelay", 20498>>,
      <<"StillCaptureMode", 20499>>, <<"Contrast", 20500>>,
      <<"Sharpness", 20501>>, <<"DigitalZoom", 20502>>,
      <<"EffectMode", 20503>>, <<"BurstNumber", 20504>>,
      <<"BurstInterval", 20505>>, <<"TimelapseNumber", 20506>>,
      <<"TimelapseInterval", 20507>>, <<"FocusMeteringMode", 20508>>,
      <<"UploadURL", 20509>>, <<"Artist", 20510>>,
      <<"CopyrightInfo", 20511>> }

ObjectFormatCode ==
    { <<"Undefined", 12288>>, <<"Association", 12289>>, <<"Script", 12290>>,
      <<"Executable", 12291>>, <<"Text", 12292>>, <<"HTML", 12293>>,
      <<"DPOF", 12294>>, <<"AIFF", 12295>>, <<"WAV", 12296>>,
      <<"MP3", 12297>>, <<"AVI", 12298>>, <<"MPEG", 12299>>, <<"ASF", 12300>>,
      <<"QT", 12301>>, <<"EXIF_JPEG", 14337>>, <<"TIFF_EP", 14338>>,
      <<"FlashPix", 14339>>, <<"BMP", 14340>>, <<"CIFF", 14341>>,
      <<"GIF", 14343>>, <<"JFIF", 14344>>, <<"PCD", 14345>>,
      <<"PICT", 14346>>, <<"PNG", 14347>>, <<"TIFF", 14349>>,
      <<"TIFF_IT", 14350>>, <<"JP2", 14351>>, <<"JPX", 14352>>,
      <<"DNG", 14353>> }

Categories ==
    {"OperationCode", "ResponseCode", "EventCode", "PropertyCode",
     "ObjectFormatCode"}

CodeTable(category) ==
    CASE category = "OperationCode" -> OperationCode
      [] category = "ResponseCode" -> ResponseCode
      [] category = "EventCode" -> EventCode
      [] category = "PropertyCode" -> PropertyCode
      [] category = "ObjectFormatCode" -> ObjectFormatCode

Names(pairs) == {p[1] : p \in pairs}
Values(pairs) == {p[2] : p \in pairs}

\* Enum(subcon, _default_=Pass, <canonical>, **vendor): a vendor keyword that
\* repeats a canonical keyword is a TypeError of the call; otherwise the
\* mapping holds all pairs.
Enum(canonical, vendor) ==
    IF Names(canonical) \cap Names(vendor) # {}
    THEN [raised |-> "TypeError", mapping |-> {}]
    ELSE [raised |-> "", mapping |-> canonical \cup vendor]

Symbol(name, value) == [kind |-> "symbol", name |-> name, value |-> value]
Unrecognized(value) == [kind |-> "unrecognized", name |-> "", value |-> value]
Raised(what) == [kind |-> what, name |-> "", value |-> 0]

\* Mutant: no _default_, so a value without an entry raises MappingError.
Decodings_without_default(mapping, value) ==
    IF value \in Values(mapping)
    THEN {Symbol(p[1], value) : p \in {q \in mapping : q[2] = value}}
    ELSE {Raised("MappingError")}

\* What decoding `value` can return.  The decoding dictionary is the mapping
\* reversed, dict((v, k) for k, v in mapping.items()): a value that several
\* names carry keeps one of them, whichever the dictionary order puts last;
\* a value with no entry falls to the default, Pass, which hands it through.
Decodings(mapping, value) ==
    IF value \in Values(mapping)
    THEN {Symbol(p[1], value) : p \in {q \in mapping : q[2] = value}}
    ELSE {Unrecognized(value)}

\* Values outside every table: 0, a vendor-range code, the gap after the
\* last operation code, 0xFFFF.
UnknownValues == {0, 36865, 4134, 65535}

\* Vendor pairs a caller may pass for a category: a new name with a new
\* value, a new name with the value of the canonical Undefined entry of the
\* category, and the canonical name Undefined with a new value.
UndefinedValue(category) ==
    (CHOOSE p \in CodeTable(category) : p[1] = "Undefined")[2]

VendorPairs(category) ==
    { <<"VendorNew", 36865>>,
      <<"VendorAlias", UndefinedValue(category)>>,
      <<"Undefined", 36866>> }

\* The values decoded in the model: every canonical code, the vendor codes,
\* and the unknown ones.
DecodedValues(category) ==
    Values(CodeTable(category)) \cup Values(VendorPairs(category))
        \cup UnknownValues

\* ------------------------------------------------------------------ frames
FrameKinds == {"Operation", "Response", "Event"}

\* The count in Array(count, Parameter(...)) of each frame Struct.
ParameterCount(kind) ==
    CASE kind = "Operation" -> 5
      [] kind = "Response" -> 5
      [] kind = "Event" -> 3

\* Array(count, subcon) building obj: the list must have exactly `count`
\* items, else ArrayError.
Array(count, obj) ==
    IF Len(obj) # count
    THEN [raised |-> "ArrayError", items |-> <<>>]
    ELSE [raised |-> "", items |-> obj]

\* Building a frame of `kind` from a Container: the parameters emitted.
FrameBuild(kind, ptp) == Array(ParameterCount(kind), ptp.Parameter)

MaxParams == 6
ParamValues == {0, 1}

RECURSIVE Lists(_, _)
\* All lists of n items from S.
Lists(S, n) ==
    IF n = 0 THEN {<<>>}
    ELSE {Append(l, x) : l \in Lists(S, n - 1), x \in S}

ParameterLists == UNION {Lists(ParamValues, n) : n \in 0..MaxParams}

\* -------------------------------------------------------------- DeviceInfo
\* An integer codec: the field it belongs to, what it reads there, its
\* width in bytes and its byte order.
IntCodec(field, part, width, order) ==
    [field |-> field, part |-> part, width |-> width, order |-> order]

ULInt16(name) == IntCodec(name, "value", 2, "little")
ULInt32(name) == IntCodec(name, "value", 4, "little")

\* The integer under each Enum: switch_endian(_le_, _be_, ULInt16, UBInt16,
\* UNInt16).
CodeElement(le, be) == IntCodec("", "element", 2, Order(le, be))

\* PTPString(name, _le_, _be_): the length prefix is one byte.
PTPString(name, le, be) ==
    << IntCodec(name, "length", 1, Order(le, be)) >>

\* PTPArray(name, element, _le_, _be_): a 32-bit length and the elements.
PTPArray(name, element, le, be) ==
    << IntCodec(name, "length", 4, Order(le, be)),
       [element EXCEPT !.field = name] >>

\* The integer codecs of DeviceInfo(_le_, _be_), in field order.  Only the
\* code elements are given the flags; PTPString and PTPArray are called
\* without them, so their flags take the defaults False, False.
DeviceInfo(le, be) ==
    << ULInt16("StandardVersion"),
       ULInt32("VendorExtensionID"),
       ULInt16("VendorExtensionVersion") >>
    \o PTPString("VendorExtensionDesc", FALSE, FALSE)
    \o << ULInt16("FunctionalMode") >>
    \o PTPArray("OperationSupported", CodeElement(le, be), FALSE, FALSE)
    \o PTPArray("EventsSupported", CodeElement(le, be), FALSE, FALSE)
    \o PTPArray("DevicePropertiesSupported", CodeElement(le, be), FALSE, FALSE)
    \o PTPArray("CaptureFormats", CodeElement(le, be), FALSE, FALSE)
    \o PTPString("Manufacturer", FALSE, FALSE)
    \o PTPString("Model", FALSE, FALSE)
    \o PTPString("DeviceVersion", FALSE, FALSE)
    \o PTPString("SerialNumber", FALSE, FALSE)

RECURSIVE BigEndian(_)
\* The bytes read most significant first.
BigEndian(bytes) ==
    IF bytes = <<>> THEN 0
    ELSE 256 * BigEndian(SubSeq(bytes, 1, Len(bytes) - 1)) + bytes[Len(bytes)]

RECURSIVE LittleEndian(_)
\* The bytes read least significant first.
LittleEndian(bytes) ==
    IF bytes = <<>> THEN 0
    ELSE bytes[1] + 256 * LittleEndian(SubSeq(bytes, 2, Len(bytes)))

\* Parsing `bytes` with an integer codec on a host whose native order is
\* sel.native.
Parse(codec, bytes, sel) ==
    LET order == IF codec.order = "native" THEN sel.native ELSE codec.order
    IN  IF order = "little" THEN LittleEndian(bytes) ELSE BigEndian(bytes)

\* Byte values fed to the integer codecs.
ByteValues == {0, 1}

\* --------------------------------------------------------- codec behaviours
\* The flags _set_endian(little, big) was called with, and the host's
\* native byte order.
EndianSelections ==
    [little : BOOLEAN, big : BOOLEAN, native : {"little", "big"}]

InitCodec ==
    /\ InitFresh
    /\ ctx = <<>>
    /\ last = Call("init", Zero, "", "", "")
    /\ ncalls = 0
    /\ threads = NoThreads
    /\ endian \in EndianSelections

\* A codec call on a device that has made no call yet; the codecs read and
\* write none of the device's fields.
CodecCall(op, arg, result) ==
    /\ last' = Call(op, arg, "", "", result)
    /\ ncalls' = 1
    /\ UNCHANGED <<session, transaction_id, wire, returned, from_reset, ctx,
                   restarts, stamps, threads, endian>>

\* A constructor called with the device's flags.
SwitchEndian ==
    /\ ncalls = 0
    /\ CodecCall("switch_endian", <<endian.little, endian.big>>,
                 switch_endian(endian.little, endian.big,
                               "little", "big", "native"))

\* A code of some category, built with vendor pairs, decodes a value.
EnumDecode ==
    /\ ncalls = 0
    /\ \E c \in Categories :
          \E v \in SUBSET VendorPairs(c), x \in DecodedValues(c) :
              LET e == Enum(CodeTable(c), v)
              IN  \E r \in IF e.raised # "" THEN {Raised(e.raised)}
                           ELSE Decodings(e.mapping, x) :
                      CodecCall("Enum.parse",
                                [category |-> c, vendor |-> v, value |-> x], r)

\* A frame of some kind is built from a Container with a parameter list.
Build ==
    /\ ncalls = 0
    /\ \E k \in FrameKinds, p \in ParameterLists :
          CodecCall("build", [kind |-> k, Parameter |-> p],
                    FrameBuild(k, Container("GetObject", 1, One, p)))

\* One integer of the device's DeviceInfo parses its bytes.  With both
\* flags set _set_endian raised and the device has no DeviceInfo.
DeviceInfoParse ==
    /\ ncalls = 0
    /\ ~(endian.little /\ endian.big)
    /\ \E i \in DOMAIN DeviceInfo(endian.little, endian.big) :
          LET codec == DeviceInfo(endian.little, endian.big)[i]
          IN  \E b \in Lists(ByteValues, codec.width) :
                  CodecCall("DeviceInfo.parse",
                            [field |-> codec.field, part |-> codec.part,
                             bytes |-> b],
                            Parse(codec, b, endian))

NextCodec ==
    \/ SwitchEndian
    \/ EnumDecode
    \/ Build
    \/ DeviceInfoParse

SpecCodec == InitCodec /\ [][NextCodec]_vars

\* ------------------------------------------- the getter, statement by statement
\* Threads that share one device object.
Threads == {1, 2}

Idle == [pc |-> "idle", current_id |-> Zero, loaded |-> Zero]

\* Mutant: the counter is stored back as it was loaded.
getter_increment_none(loaded) == loaded

\* self.__transaction_id += 1 stores the loaded value plus one.
getter_increment(loaded) == Inc(loaded)

\* if self.__transaction_id > 0xFFFFFFFE: self.__transaction_id = 1
getter_wrap(id) == IF Gt(id, MaxTransactionID) THEN One ELSE id

\* Thread t moves to pc `to` with its locals changed as given.
Step(t, to, cur, ld) ==
    threads' = [threads EXCEPT
                   !.th[t] = [pc |-> to, current_id |-> cur, loaded |-> ld]]

\* What a statement inside the getter leaves alone.
GetterFrame ==
    UNCHANGED <<session, wire, from_reset, ctx, last, ncalls, restarts,
                stamps, endian>>

InitThreads ==
    /\ InitFresh \/ \E d \in 0..PreWrap : InitLongRun(d)
    /\ ctx = <<>>
    /\ last = Call("init", Zero, "", "", "")
    /\ ncalls = 0
    /\ endian = DefaultEndian
    /\ \E s \in BOOLEAN :
          threads = [serialized |-> s, holder |-> 0,
                     th |-> [t \in Threads |-> Idle]]

\* Thread t calls the getter.  Callers that serialize their calls wait
\* until no other call is in progress.
GetterCall(t) ==
    /\ ncalls < MaxCalls
    /\ threads.th[t].pc = "idle"
    /\ threads.serialized => threads.holder = 0
    /\ threads' = [threads EXCEPT
                      !.holder = IF threads.serialized THEN t ELSE @,
                      !.th[t].pc = "read"]
    /\ ncalls' = ncalls + 1
    /\ UNCHANGED <<session, transaction_id, wire, returned, from_reset, ctx,
                   last, restarts, stamps, endian>>

\* current_id = self.__transaction_id
GetterRead(t) ==
    /\ threads.th[t].pc = "read"
    /\ Step(t, "load", transaction_id, threads.th[t].loaded)
    /\ UNCHANGED <<transaction_id, returned>>
    /\ GetterFrame

\* self.__transaction_id += 1, the load
GetterLoad(t) ==
    /\ threads.th[t].pc = "load"
    /\ Step(t, "store", threads.th[t].current_id, transaction_id)
    /\ UNCHANGED <<transaction_id, returned>>
    /\ GetterFrame

\* self.__transaction_id += 1, the store
GetterStore(t) ==
    /\ threads.th[t].pc = "store"
    /\ transaction_id' = getter_increment(threads.th[t].loaded)
    /\ Step(t, "wrap", threads.th[t].current_id, threads.th[t].loaded)
    /\ UNCHANGED returned
    /\ GetterFrame

\* the wrap test and assignment
GetterWrap(t) ==
    /\ threads.th[t].pc = "wrap"
    /\ transaction_id' = getter_wrap(transaction_id)
    /\ Step(t, "return", threads.th[t].current_id, threads.th[t].loaded)
    /\ UNCHANGED returned
    /\ GetterFrame

\* return current_id
GetterReturn(t) ==
    /\ threads.th[t].pc = "return"
    /\ returned' = Append(returned, threads.th[t].current_id)
    /\ threads' = [threads EXCEPT !.holder = 0, !.th[t] = Idle]
    /\ last' = Call("transaction", threads.th[t].current_id, "", "", "value")
    /\ UNCHANGED <<session, transaction_id, wire, from_reset, ctx, ncalls,
                   restarts, stamps, endian>>

NextThreads ==
    \/ \E t \in Threads : GetterCall(t)
    \/ \E t \in Threads : GetterRead(t)
    \/ \E t \in Threads : GetterLoad(t)
    \/ \E t \in Threads : GetterStore(t)
    \/ \E t \in Threads : GetterWrap(t)
    \/ \E t \in Threads : GetterReturn(t)

SpecThreads == InitThreads /\ [][NextThreads]_vars

\* ------------------------------------------------------------ properties
\* The successor in the sequence 0,1,2,...,0xFFFFFFFE,1,2,...
SeqNext(v) == IF v = MaxTransactionID THEN One ELSE Inc(v)

\* Number of CloseSession frames handed to the transport so far.
NumClose(w) == Cardinality({i \in DOMAIN w : w[i].OperationCode = "CloseSession"})

\* The frames a step hands to the transport.
NewFrames == SubSeq(wire', Len(wire) + 1, Len(wire'))

\* The step is a call of `op`.
IsCall(op) == ncalls' = ncalls + 1 /\ last'.op = op

\* C1: with no reset in between, successive reads of the transaction
\* property return 0,1,2,...,0xFFFFFFFE,1,2,...: the first value after a
\* reset (or construction) is 0, each value is followed by its successor,
\* 0xFFFFFFFE is followed by 1, and 0 never comes back after the first value.
C1_ProduceSequence ==
    /\ (from_reset /\ returned # <<>>) => returned[1] = Zero
    /\ \A i \in 1..(Len(returned) - 1) : returned[i + 1] = SeqNext(returned[i])
    /\ \A i \in 1..Len(returned) : returned[i] = Zero => (i = 1 /\ from_reset)

\* The counter has wrapped: 0xFFFFFFFE was returned and then 1.
C1_Witness ==
    \E i \in 1..(Len(returned) - 1) :
        returned[i] = MaxTransactionID /\ returned[i + 1] = One

\* C2: whichever way the body of `with device.session():` ends (normal
\* completion, early return, an exception), leaving the statement hands
\* exactly one CloseSession frame to the transport.
C2_SessionClosesOnce ==
    [][IsCall("session.exit") =>
          /\ NumClose(wire') = NumClose(wire) + 1
          /\ Len(wire') = Len(wire) + 1]_vars

\* A session() body has ended with an exception.
C2_Witness == last.op = "session.exit" /\ last.how = "raise"

\* C3: every open_session() call increments the session counter to S and
\* hands the transport, through mesg, the frame OpenSession with
\* SessionID 0, TransactionID 0 and Parameter [S,0,0,0,0]; no OpenSession
\* frame of any other shape is ever handed over.
C3_OpenSessionFrame ==
    [][/\ IsCall("open_session") =>
             /\ session' = session + 1
             /\ NewFrames = << Handed("mesg", Container("OpenSession", 0, Zero,
                                                       <<session', 0, 0, 0, 0>>)) >>
       /\ \A i \in DOMAIN NewFrames :
             NewFrames[i].OperationCode = "OpenSession" =>
                 /\ session' = session + 1
                 /\ NewFrames[i] = Handed("mesg", Container("OpenSession", 0, Zero,
                                                           <<session', 0, 0, 0, 0>>))
      ]_vars

\* open_session() was called on a device that had opened sessions before.
C3_Witness ==
    /\ last.op = "open_session"
    /\ session >= 2
    /\ wire[Len(wire)].Parameter = <<session, 0, 0, 0, 0>>

\* C4: a frame handed to the transport has SessionID 0 if and only if it is
\* an OpenSession frame (so every other frame carries an identifier > 0).
C4_SessionIdZeroIffOpen ==
    \A i \in DOMAIN wire :
        (wire[i].SessionID = 0) <=> (wire[i].OperationCode = "OpenSession")

\* The OpenSession / CloseSession frames of w, in order.
SessionFrames(w) ==
    SelectSeq(w, LAMBDA f : f.OperationCode \in {"OpenSession", "CloseSession"})

\* C5: the OpenSession and CloseSession frames handed to the transport
\* strictly alternate, starting with OpenSession.
C5_OpenCloseAlternate ==
    LET sf == SessionFrames(wire)
    IN  \A i \in DOMAIN sf :
            sf[i].OperationCode = IF i % 2 = 1 THEN "OpenSession" ELSE "CloseSession"

\* C6: once close_session() has sent CloseSession for the session S, no
\* later frame carries S as its SessionID.
C6_ClosedAfterClose ==
    \A i \in DOMAIN wire : \A j \in DOMAIN wire :
        (/\ i < j
         /\ wire[i].OperationCode = "CloseSession"
         /\ wire[i].SessionID > 0)
        => wire[j].SessionID # wire[i].SessionID

\* C7: assigning a nonzero value to the transaction counter raises PTPError
\* and leaves the counter unchanged; assigning 0 sets the counter to 0, and
\* the first value read after that is 0.
C7_TransactionAssignment ==
    [][/\ IsCall("transaction=") =>
             IF last'.arg # Zero
             THEN /\ last'.result = "PTPError"
                  /\ transaction_id' = transaction_id
                  /\ returned' = returned
             ELSE /\ last'.result = "None"
                  /\ transaction_id' = Zero
       /\ (/\ last.op = "transaction="
           /\ last.result = "None"
           /\ returned' # returned)
          => returned'[1] = Zero
      ]_vars

\* A nonzero assignment was rejected while the counter held another value.
C7_Witness ==
    /\ last.op = "transaction="
    /\ last.result = "PTPError"
    /\ transaction_id # last.arg
    /\ transaction_id # Zero

C9_StateOnlyByTransitions ==
    [][/\ IsCall("session_id=") =>
             /\ session' = session
             /\ transaction_id' = transaction_id
             /\ wire' = wire
       /\ session' # session => last'.op \in {"open_session", "session.enter"}
       /\ transaction_id' # transaction_id =>
             last'.op \in {"open_session", "close_session", "get_config_info",
                           "get_config_backup", "transaction", "transaction=",
                           "session.enter", "session.exit"}
      ]_vars

\* session_id was assigned a value other than the current session counter.
C9_Witness ==
    /\ last.op = "session_id="
    /\ last.arg # <<0, session>>
    /\ session > 0

\* C10: when the body of `with device.session():` raises, close_session()
\* still runs; when close_session() raises in that cleanup, its exception is
\* what the caller of session() gets, and the CloseSession frame was handed
\* over before.
C10_SessionErrorPropagation ==
    [][IsCall("session.exit") =>
          /\ last'.how = "raise" => NumClose(wire') = NumClose(wire) + 1
          /\ last'.transport = "raise" =>
                /\ last'.result = "close_session"
                /\ NumClose(wire') = NumClose(wire) + 1
      ]_vars

\* The body raised and then close_session() raised as well.
C10_Witness ==
    /\ last.op = "session.exit"
    /\ last.how = "raise"
    /\ last.transport = "raise"
    /\ last.result = "close_session"

\* ------------------------------------------------- properties, continued
IsOpenFrame(f) == f.OperationCode = "OpenSession"

\* wire[i] and wire[j] belong to one session: an OpenSession frame precedes
\* or is wire[i], and none lies after wire[i] up to wire[j].
SameSession(i, j) ==
    /\ i < j
    /\ \E k \in 1..i : IsOpenFrame(wire[k])
    /\ \A k \in (i + 1)..j : ~IsOpenFrame(wire[k])

\* No TransactionID is carried by both wire entries.
DisjointIds(a, b) ==
    Gt(a.TransactionID, b.upto) \/ Gt(b.TransactionID, a.upto)

\* C14 as stated: no two frames of one session carry the same TransactionID,
\* however many transactions the session has.
C14_DistinctInSession ==
    \A i \in DOMAIN wire : \A j \in DOMAIN wire :
        SameSession(i, j) => DisjointIds(wire[i], wire[j])

\* C14 amended: two frames of one session carry different TransactionIDs
\* as long as the counter was not set back between them (by a reset or by
\* the wrap past 0xFFFFFFFE).
C14_DistinctUntilRestart ==
    \A i \in DOMAIN wire : \A j \in DOMAIN wire :
        (SameSession(i, j) /\ stamps[i] = stamps[j])
        => DisjointIds(wire[i], wire[j])

\* A session has used every TransactionID up to 0xFFFFFFFE without a restart.
C14_Witness ==
    \E i \in DOMAIN wire : \E j \in DOMAIN wire :
        /\ SameSession(i, j)
        /\ stamps[i] = stamps[j]
        /\ wire[j].TransactionID = MaxTransactionID
        /\ last.op \in {"close_session", "get_config_info", "get_config_backup"}

\* The frame handed over last, and the one before it.
LastFrame == wire[Len(wire)]
PrevFrame == wire[Len(wire) - 1]

\* C15 as stated: the frame of close_session() is CloseSession with the
\* session counter as SessionID and zero parameters, and its TransactionID
\* is one more than that of the previous frame (whose id was the value
\* produced just before).
C15_CloseFrameOneMore ==
    (/\ last.op = "close_session"
     /\ Len(wire) >= 2
     /\ Len(returned) >= 2
     /\ returned[Len(returned) - 1] = PrevFrame.upto)
    => /\ LastFrame = Handed("mesg", Container("CloseSession", session,
                                               LastFrame.TransactionID,
                                               <<0, 0, 0, 0, 0>>))
       /\ LastFrame.TransactionID = Inc(PrevFrame.upto)

\* C15 amended: the frame of close_session() is CloseSession with the
\* session counter as SessionID, zero parameters and the value the getter
\* returned; that value is the successor, in 0,1,...,0xFFFFFFFE,1,..., of the
\* value returned before it: 1 right after open_session(), when SessionID is
\* the S that open_session() announced, and 1 again after 0xFFFFFFFE.
C15_CloseFrameNextProduced ==
    last.op = "close_session" =>
        /\ returned # <<>>
        /\ LastFrame = Handed("mesg", Container("CloseSession", session,
                                                returned[Len(returned)],
                                                <<0, 0, 0, 0, 0>>))
        /\ Len(returned) >= 2 =>
              returned[Len(returned)] = SeqNext(returned[Len(returned) - 1])
        /\ (/\ Len(wire) >= 2
            /\ IsOpenFrame(PrevFrame)
            /\ returned = <<PrevFrame.TransactionID, LastFrame.TransactionID>>)
           => /\ LastFrame.TransactionID = One
              /\ LastFrame.SessionID = PrevFrame.Parameter[1]

\* close_session() drew the id after 0xFFFFFFFE.
C15_Witness ==
    /\ last.op = "close_session"
    /\ Len(returned) >= 2
    /\ returned[Len(returned) - 1] = MaxTransactionID
    /\ LastFrame.TransactionID = One

\* The OpenSession frames of the wire, in order.
OpenFrames == SelectSeq(wire, IsOpenFrame)

\* C19: the session counter equals the number of open_session() calls made
\* (each call, failed or not, adds one and nothing else changes it), and the
\* i-th OpenSession frame announces the identifier i.
C19_SessionCounter ==
    /\ session = Len(OpenFrames)
    /\ \A i \in DOMAIN OpenFrames : OpenFrames[i].Parameter = <<i, 0, 0, 0, 0>>

\* A second open_session() whose transport call raised.
C19_Witness ==
    /\ last.op = "open_session"
    /\ last.transport = "raise"
    /\ session >= 2

\* C20: when open_session() raises inside session(), the body is never
\* entered, exactly one CloseSession frame follows the OpenSession frame, it
\* carries the incremented session counter and TransactionID 1, and the
\* counter stays incremented.
C20_OpenFailsInSession ==
    [][(IsCall("session.enter") /\ last'.result # "yield") =>
          /\ ctx' = ctx
          /\ session' = session + 1
          /\ NewFrames =
                << Handed("mesg", Container("OpenSession", 0, Zero,
                                            <<session + 1, 0, 0, 0, 0>>)),
                   Handed("mesg", Container("CloseSession", session + 1, One,
                                            <<0, 0, 0, 0, 0>>)) >>
      ]_vars

\* open_session() raised inside session() on a device that had a session before.
C20_Witness ==
    /\ last.op = "session.enter"
    /\ last.result = "open_session"
    /\ session >= 2
    /\ ctx = <<>>

\* --------------------------------------------------------- codec properties
\* The list p filled up with zeros to n items.
ZeroPadded(p, n) == [i \in 1..n |-> IF i <= Len(p) THEN p[i] ELSE 0]

\* C11 as stated: building a frame emits exactly the fixed number of
\* parameters of its kind; a shorter list is padded with zeros and a longer
\* one fails.
C11_FixedParameterCount ==
    last.op = "build" =>
        LET n == ParameterCount(last.arg.kind)
            p == last.arg.Parameter
        IN  IF Len(p) <= n
            THEN last.result.raised = "" /\ last.result.items = ZeroPadded(p, n)
            ELSE last.result.raised # ""

\* C12: in every category, a value without an entry decodes to itself,
\* marked unrecognized, and never fails; a value with an entry decodes to
\* the symbol of that entry.
C12_UnknownPassThrough ==
    (last.op = "Enum.parse" /\ last.arg.vendor = {}) =>
        LET t == CodeTable(last.arg.category)
            x == last.arg.value
        IN  IF x \in Values(t)
            THEN \E q \in t : q[2] = x /\ last.result = Symbol(q[1], x)
            ELSE last.result = Unrecognized(x)

\* An object format code outside the table came back as the raw number.
C12_Witness ==
    /\ last.op = "Enum.parse"
    /\ last.arg.vendor = {}
    /\ last.arg.category = "ObjectFormatCode"
    /\ last.arg.value = 4134
    /\ last.result = Unrecognized(4134)

\* C13: both flags set fails, none set gives the native variant, only
\* little gives the little-endian one, only big the big-endian one.
C13_EndianSelector ==
    last.op = "switch_endian" =>
        LET le == last.arg[1]
            be == last.arg[2]
        IN  /\ (le /\ be) => last.result = "PTPError"
            /\ (~le /\ ~be) => last.result = "native"
            /\ (le /\ ~be) => last.result = "little"
            /\ (~le /\ be) => last.result = "big"

\* The selector was given both flags and failed.
C13_Witness ==
    /\ last.op = "switch_endian"
    /\ last.arg = <<TRUE, TRUE>>
    /\ last.result = "PTPError"

\* C16 as stated: whatever vendor pairs are merged into a table, a
\* canonical code still decodes to its canonical symbol.
C16_MergeKeepsCanonical ==
    (last.op = "Enum.parse" /\ last.result.kind # "TypeError") =>
        \A q \in CodeTable(last.arg.category) :
            q[2] = last.arg.value => last.result = Symbol(q[1], q[2])

\* C17 as stated: on a device built with big-endian selected, every fixed
\* integer, length prefix and code element of DeviceInfo is read big-endian.
C17_DeviceInfoBigEndian ==
    (last.op = "DeviceInfo.parse" /\ endian.big /\ ~endian.little) =>
        last.result = BigEndian(last.arg.bytes)

\* -------------------------------------------------------- thread properties
\* C18: callers that serialize their calls of the getter never receive the
\* same TransactionID twice (no reset happens here and the wrap, if any,
\* passes once); callers that do not can both receive the same one, which
\* C18_Witness shows.  Run alone, the statements of the getter have the
\* effect of transaction_getter.
C18_SerializedDistinct ==
    threads.serialized =>
        /\ \A i \in DOMAIN returned : \A j \in DOMAIN returned :
              i # j => returned[i] # returned[j]
        /\ \A i \in 1..(Len(returned) - 1) :
              returned[i + 1] = transaction_getter(returned[i]).transaction_id

\* Two unserialized callers received the same TransactionID.
C18_Witness ==
    /\ ~threads.serialized
    /\ \E i \in DOMAIN returned : \E j \in DOMAIN returned :
          i # j /\ returned[i] = returned[j]

====
